---- MODULE Spec2Model ----
(***************************************************************************)
(* Model of the push pipeline of NoctiForge-Cli                            *)
(* (src/src/command/push/mod.rs, `run`).                                   *)
(*                                                                         *)
(* `run` stages a build in a temporary directory, spawns a task that       *)
(* serialises the directory as a tar stream into the write half of an      *)
(* in-memory duplex pipe, and sends what it reads from the other half to   *)
(* the registry as a client-streaming call.  The digest the registry       *)
(* answers is then bound to the project name at the control plane.         *)
(*                                                                         *)
(* Data is counted in blocks of BlockBytes bytes; an archive is a sequence *)
(* of distinct blocks, so that loss, duplication and reordering show.      *)
(***************************************************************************)
EXTENDS Integers, Sequences, FiniteSets, TLC

\* ---------------------------------------------------------------- bounds
MaxFiles == 3
BlockBytes == 2048
NumDigests == 2
NumNames == 2
MaxScriptLen == 2
MaxPkgs == 2
MaxTargets == 2

\* ------------------------------------------------------ program constants
DuplexBytes == 8 * 1024
BufBytes == 8192

DefaultTimeout == 300
LongTimeout == 3600
NoCode == -1

PipeCap == DuplexBytes \div BlockBytes
BufLen == BufBytes \div BlockBytes

FileCounts == 0..MaxFiles
Digests == 1..NumDigests
Names == 1..NumNames

Min(a, b) == IF a <= b THEN a ELSE b

\* ------------------------------------------------------------ the archive
\* append_dir_all(".", dir) emits the entry of the directory itself, then a
\* header and the content of every file, in walk order; finish() emits the
\* end-of-archive marker.
RECURSIVE FileEntries(_)
FileEntries(n) ==
    IF n = 0 THEN << >>
    ELSE FileEntries(n - 1) \o << <<"hdr", n>>, <<"data", n>> >>

AppendPart(n) == << <<"dir", 0>> >> \o FileEntries(n)

FinishPart == << <<"end", 0>> >>

ArchiveOf(n) == AppendPart(n) \o FinishPart

\* ------------------------------------------------------------------ paths
\* A path is absolute or relative and has components; join replaces the
\* base by an absolute argument and appends a relative one.
Path(abs, comps) == [abs |-> abs, comps |-> comps]

Join(base, p) ==
    IF p.abs THEN p ELSE Path(base.abs, base.comps \o p.comps)

\* What the file system makes of a path: ".." steps to the parent.
RECURSIVE Resolve(_)
Resolve(comps) ==
    IF comps = << >> THEN << >>
    ELSE LET init == Resolve(SubSeq(comps, 1, Len(comps) - 1))
             last == comps[Len(comps)]
         IN IF last = ".."
            THEN (IF init = << >> THEN << >>
                  ELSE SubSeq(init, 1, Len(init) - 1))
            ELSE Append(init, last)

ProjectPath == Path(TRUE, << "proj" >>)
TempPath == Path(TRUE, << "tmp", "nocti-build" >>)

\* The directories on disk: the root, the project with one subdirectory, the
\* temporary directory and a directory outside the project.
Directories ==
    { << >>, << "proj" >>, << "proj", "sub" >>, << "other" >>, << "tmp" >>,
      << "tmp", "nocti-build" >> }

Exists(p) == Resolve(p.comps) \in Directories

IsPrefix(s, t) == Len(s) <= Len(t) /\ SubSeq(t, 1, Len(s)) = s

InsideProject(p) == IsPrefix(ProjectPath.comps, Resolve(p.comps))

\* -------------------------------------------------- custom build: config
\* A script is text; the model keeps whitespace, ordinary text and text of
\* the denylist apart.
ScriptTokens == {"ws", "cmd", "sudo"}

RECURSIVE SeqsUpTo(_, _)
SeqsUpTo(S, n) ==
    IF n = 0 THEN { << >> }
    ELSE LET shorter == SeqsUpTo(S, n - 1)
         IN shorter \cup { Append(s, x) : s \in shorter, x \in S }

Scripts == SeqsUpTo(ScriptTokens, MaxScriptLen)

TimeoutValues == {0, 1, DefaultTimeout, LongTimeout + 1}

NoDir == Path(FALSE, << "<none>" >>)

WorkDirs ==
    { NoDir,
      Path(FALSE, << "sub" >>),
      Path(FALSE, << "missing" >>),
      Path(FALSE, << ".." >>),
      Path(FALSE, << "sub", "..", "..", "other" >>),
      Path(TRUE, << "other" >>) }

CustomConfigs ==
    [ type : {"custom"}, script : Scripts, timeout_seconds : TimeoutValues,
      working_directory : WorkDirs, shell : {"sh"} ]

NoCfg == [ type |-> "none" ]

\* str::trim: leading and trailing whitespace removed.
RECURSIVE TrimStart(_)
TrimStart(s) ==
    IF s # << >> /\ s[1] = "ws" THEN TrimStart(SubSeq(s, 2, Len(s))) ELSE s

RECURSIVE TrimEnd(_)
TrimEnd(s) ==
    IF s # << >> /\ s[Len(s)] = "ws"
    THEN TrimEnd(SubSeq(s, 1, Len(s) - 1)) ELSE s

Trim(s) == TrimEnd(TrimStart(s))

\* script.contains(pattern) for a pattern of dangerous_patterns.
ContainsDangerous(script) ==
    \E i \in 1..Len(script) : script[i] = "sudo"

\* What validate logs with warn! when it returns Ok.
ValidateWarnings(c) ==
    (IF ContainsDangerous(c.script) THEN {"DangerousCommand"} ELSE { })
    \cup (IF c.timeout_seconds > LongTimeout THEN {"LongTimeout"} ELSE { })

\* CustomBuild::validate without the trim.
ValidateUntrimmed(c) ==
    IF c.script = << >> THEN "EmptyScript"
    ELSE IF c.timeout_seconds = 0 THEN "InvalidTimeout"
    ELSE "ok"

\* CustomBuild::validate: the two bail! of the function; the warnings do not
\* return.
Validate(c) ==
    IF Trim(c.script) = << >> THEN "EmptyScript"
    ELSE IF c.timeout_seconds = 0 THEN "InvalidTimeout"
    ELSE "ok"

\* WorkingDir without the exists() test.
WorkingDirUnchecked(c, project_path) ==
    IF c.working_directory # NoDir
    THEN [ err |-> "none", dir |-> Join(project_path, c.working_directory) ]
    ELSE [ err |-> "none", dir |-> project_path ]

\* "Determine working directory": the override joined to project_path if it
\* exists, project_path without an override.
WorkingDir(c, project_path) ==
    IF c.working_directory # NoDir
    THEN LET custom_wd == Join(project_path, c.working_directory)
         IN IF ~Exists(custom_wd)
            THEN [ err |-> "MissingWorkingDirectory", dir |-> custom_wd ]
            ELSE [ err |-> "none", dir |-> custom_wd ]
    ELSE [ err |-> "none", dir |-> project_path ]

\* -------------------------------------------------------------- processes
NoProc ==
    [ cmd |-> "none", args |-> << >>, cwd |-> ProjectPath, env |-> { },
      deadline |-> 0, killOnDrop |-> FALSE, state |-> "none",
      code |-> NoCode ]

\* ScriptCommand without kill_on_drop(true).
ScriptCommandNoKill(c, working_dir, temp_path) ==
    [ cmd |-> c.shell,
      args |-> << "-c", c.script >>,
      cwd |-> working_dir,
      env |-> { << "OUTPUT", temp_path >>, << "PROJECT_PATH", working_dir >>,
                << "TEMP_PATH", temp_path >> },
      deadline |-> c.timeout_seconds,
      killOnDrop |-> FALSE,
      state |-> "running", code |-> NoCode ]

\* The child the script build spawns, and the deadline its wait is raced
\* against.
ScriptCommand(c, working_dir, temp_path) ==
    [ cmd |-> c.shell,
      args |-> << "-c", c.script >>,
      cwd |-> working_dir,
      env |-> { << "OUTPUT", temp_path >>, << "PROJECT_PATH", working_dir >>,
                << "TEMP_PATH", temp_path >> },
      deadline |-> c.timeout_seconds,
      killOnDrop |-> TRUE,
      state |-> "running", code |-> NoCode ]

\* The handle of a running child is dropped.
DropChild(p) ==
    IF p.state = "running" /\ p.killOnDrop
    THEN [ p EXCEPT !.state = "killed" ]
    ELSE p

\* status.code() of an ended child; NoCode when a signal ended it.
ExitCodes == {0, 1, NoCode}

\* The child has ended with this status.
Exited(p, code) == [ p EXCEPT !.state = "exited", !.code = code ]

\* CodeText printing the code whether or not there is one.
CodeTextAlwaysNumber(code) == << "code", code >>

\* code.map(|c| c.to_string()).unwrap_or_else(|| "unknown")
CodeText(code) == IF code = NoCode THEN << "unknown" >> ELSE << "code", code >>

\* ---------------------------------------------------- rust build: config
None == "<none>"

TargetTriples == {"aarch64-unknown-linux-gnu"}
DefaultTarget == "x86_64-unknown-linux-musl"
ProfileTexts == {"release", "Debug", "fast"}
PkgNames == {"A", "B"}
BinNames == {"a", "b"}

RustConfigs ==
    [ type : {"rust"}, target : {None} \cup TargetTriples,
      profile : ProfileTexts, package_name : {None} \cup PkgNames,
      binary_name : {None} \cup BinNames ]

\* str::to_lowercase on the profile texts of the model.
ToLowercase(t) == IF t = "Debug" THEN "debug" ELSE t

\* impl From<RustBuildConfig> for RustBuild: RustBuild::new() is
\* RustBuild::default(), whose target is Some(DefaultTarget); a field of the
\* config overrides the default only when it is Some.
FromConfig(c) ==
    [ target |-> IF c.target # None THEN c.target ELSE DefaultTarget,
      profile |-> IF ToLowercase(c.profile) = "debug" THEN "Debug"
                  ELSE "Release",
      package_name |-> c.package_name,
      binary_name |-> c.binary_name ]

\* ------------------------------------------------- rust build: metadata
Kinds == { << "bin" >>, << "lib" >> }
Targets == [ name : BinNames, kind : Kinds ]
TargetLists == SeqsUpTo(Targets, MaxTargets)

ManifestName == Path(FALSE, << "Cargo.toml" >>)
ManifestPaths ==
    { Join(ProjectPath, ManifestName),
      Join(Path(TRUE, << "proj", "sub" >>), ManifestName) }

Packages ==
    [ name : PkgNames, manifest_path : ManifestPaths, targets : TargetLists ]

\* cargo metadata lists every package once: names and manifests differ.
Metadatas ==
    { md \in SeqsUpTo(Packages, MaxPkgs) :
        \A i, j \in 1..Len(md) :
            i # j => /\ md[i].name # md[j].name
                     /\ md[i].manifest_path # md[j].manifest_path }

NoPkg == [ name |-> "none", manifest_path |-> NoDir, targets |-> << >> ]
NoTarget == [ name |-> "none", kind |-> << >> ]

\* Iterator::find: index of the first element passing the test, 0 if none.
FirstIndex(s, Test(_)) ==
    IF \E i \in 1..Len(s) : Test(s[i])
    THEN CHOOSE i \in 1..Len(s) :
            Test(s[i]) /\ \A j \in 1..(i - 1) : ~Test(s[j])
    ELSE 0

\* FindPackage trying the manifest match before the configured name.
FindPackageManifestFirst(rb, md, project_path) ==
    LET HasName(p) == p.name = rb.package_name
        AtRoot(p) == p.manifest_path = Join(project_path, ManifestName)
        byName == FirstIndex(md, HasName)
        byPath == FirstIndex(md, AtRoot)
    IN IF byPath # 0 THEN [ err |-> "none", pkg |-> md[byPath] ]
       ELSE IF rb.package_name # None
       THEN (IF byName # 0 THEN [ err |-> "none", pkg |-> md[byName] ]
             ELSE [ err |-> "PackageNotFound", pkg |-> NoPkg ])
       ELSE IF md # << >> THEN [ err |-> "none", pkg |-> md[1] ]
       ELSE [ err |-> "NoPackagesFound", pkg |-> NoPkg ]

\* RustBuild::find_package
FindPackage(rb, md, project_path) ==
    LET HasName(p) == p.name = rb.package_name
        AtRoot(p) == p.manifest_path = Join(project_path, ManifestName)
        byName == FirstIndex(md, HasName)
        byPath == FirstIndex(md, AtRoot)
    IN IF rb.package_name # None
       THEN (IF byName # 0 THEN [ err |-> "none", pkg |-> md[byName] ]
             ELSE [ err |-> "PackageNotFound", pkg |-> NoPkg ])
       ELSE IF byPath # 0 THEN [ err |-> "none", pkg |-> md[byPath] ]
       ELSE IF md # << >> THEN [ err |-> "none", pkg |-> md[1] ]
       ELSE [ err |-> "NoPackagesFound", pkg |-> NoPkg ]

\* t.kind.contains(&"bin".to_string())
IsBin(t) == \E i \in 1..Len(t.kind) : t.kind[i] = "bin"

\* FindBinaryTarget matching a configured name whatever the kind.
FindBinaryTargetAnyKind(rb, package) ==
    LET Named(t) == t.name = rb.binary_name
        byName == FirstIndex(package.targets, Named)
        firstBin == FirstIndex(package.targets, IsBin)
    IN IF rb.binary_name # None
       THEN (IF byName # 0
             THEN [ err |-> "none", target |-> package.targets[byName] ]
             ELSE [ err |-> "BinaryTargetNotFound", target |-> NoTarget ])
       ELSE IF firstBin # 0
       THEN [ err |-> "none", target |-> package.targets[firstBin] ]
       ELSE [ err |-> "NoBinaryTargets", target |-> NoTarget ]

\* RustBuild::find_binary_target
FindBinaryTarget(rb, package) ==
    LET NamedBin(t) == IsBin(t) /\ t.name = rb.binary_name
        byName == FirstIndex(package.targets, NamedBin)
        firstBin == FirstIndex(package.targets, IsBin)
    IN IF rb.binary_name # None
       THEN (IF byName # 0
             THEN [ err |-> "none", target |-> package.targets[byName] ]
             ELSE [ err |-> "BinaryTargetNotFound", target |-> NoTarget ])
       ELSE IF firstBin # 0
       THEN [ err |-> "none", target |-> package.targets[firstBin] ]
       ELSE [ err |-> "NoBinaryTargets", target |-> NoTarget ]

\* ------------------------------------------------- rust build: commands
\* Command::new("cargo").arg("--version").output()
CargoVersionCommand ==
    [ cmd |-> "cargo", args |-> << "--version" >>, cwd |-> ProjectPath,
      env |-> { }, deadline |-> 0, killOnDrop |-> FALSE,
      state |-> "running", code |-> NoCode ]

\* get_metadata: cargo metadata --no-deps --format-version=1, output()
CargoMetadataCommand(project_path) ==
    [ cmd |-> "cargo",
      args |-> << "metadata", "--no-deps", "--format-version=1" >>,
      cwd |-> project_path, env |-> { }, deadline |-> 0,
      killOnDrop |-> FALSE, state |-> "running", code |-> NoCode ]

\* The arguments run_cargo_build gives cargo.
CargoBuildArgs(rb) ==
    << "build" >>
    \o (IF rb.profile = "Release" THEN << "--release" >> ELSE << >>)
    \o (IF rb.target # None THEN << "--target", rb.target >> ELSE << >>)

\* run_cargo_build: cmd.status()
CargoBuildCommand(rb, project_path) ==
    [ cmd |-> "cargo", args |-> CargoBuildArgs(rb), cwd |-> project_path,
      env |-> { }, deadline |-> 0, killOnDrop |-> FALSE,
      state |-> "running", code |-> NoCode ]

\* RustBuild::get_binary_path
GetBinaryPath(rb, project_path, binary_name) ==
    project_path.comps
    \o << "target" >>
    \o (IF rb.target # None THEN << rb.target >> ELSE << >>)
    \o (IF rb.profile = "Release" THEN << "release" >> ELSE << "debug" >>)
    \o << binary_name >>

VARIABLES
    pc,             \* position of `run`
    result,         \* what `run` returned
    key,            \* config.project.name
    nfiles,         \* files the build left in the staging directory
    stagingCreated, \* tempdir() has succeeded in this run
    stagingExists,  \* the staging directory is on disk
    tar,            \* state of tar_task
    tarErr,         \* which call of tar_task failed
    written,        \* blocks of the archive written into the pipe
    pipe,           \* blocks buffered in the duplex pipe
    writerOpen,     \* the write half has not been dropped
    readerOpen,     \* the read half has not been dropped
    stream,         \* state of the outbound stream
    sent,           \* blocks yielded to the registry, in yield order
    lastChunk,      \* the chunk yielded last
    digest,         \* digest returned by the push call (0: none)
    bindReq,        \* the SetDigestToNameRequest issued (<<>>: none)
    bindResp,       \* what set_digest_to_name answered
    stagingAtReturn,\* stagingExists at the moment `run` returned
    tarAtReturn,    \* tar at the moment `run` returned
    firstFail,      \* which concurrent branch failed first
    cfg,            \* config.build
    bpc,            \* position of buildservice.build
    buildErr,       \* the error build returned
    errInfo,        \* what the error message embeds
    proc,           \* the child process of the build
    spawned,        \* commands spawned so far, in order
    selPkg,         \* name of the package find_package selected
    selBin,         \* name of the target find_binary_target selected
    binPath,        \* path get_binary_path computed
    metadata,       \* the metadata document the resolution is applied to
    foundPkg,       \* what find_package returned for it
    foundBin        \* what find_binary_target returned for it

vars == << pc, result, key, nfiles, stagingCreated, stagingExists, tar, tarErr,
           written, pipe, writerOpen, readerOpen, stream, sent, lastChunk,
           digest, bindReq, bindResp, stagingAtReturn, tarAtReturn,
           firstFail, cfg, bpc, buildErr, errInfo, proc, spawned, selPkg,
           selBin, binPath, metadata, foundPkg, foundBin >>

\* Inputs and results of the resolution functions applied on their own.
fnVars == << metadata, foundPkg, foundBin >>
buildVars == << cfg, bpc, buildErr, errInfo, proc, spawned, selPkg, selBin,
               binPath, fnVars >>
runVars == << pc, result, stagingAtReturn, tarAtReturn >>
pipeVars == << written, pipe, writerOpen, readerOpen >>
tarVars == << tar, tarErr >>
streamVars == << stream, sent, lastChunk >>
bindVars == << digest, bindReq, bindResp >>

Archive == ArchiveOf(nfiles)

RunInit ==
    /\ pc = "start"
    /\ result = "none"
    /\ key = 0
    /\ nfiles = 0
    /\ stagingCreated = FALSE
    /\ stagingExists = FALSE
    /\ tar = "unspawned"
    /\ tarErr = "none"
    /\ written = 0
    /\ pipe = << >>
    /\ writerOpen = FALSE
    /\ readerOpen = FALSE
    /\ stream = "none"
    /\ sent = << >>
    /\ lastChunk = << >>
    /\ digest = 0
    /\ bindReq = << >>
    /\ bindResp = "none"
    /\ stagingAtReturn = FALSE
    /\ tarAtReturn = "unspawned"
    /\ firstFail = "none"
    /\ buildErr = "none"
    /\ errInfo = << >>
    /\ proc = NoProc
    /\ spawned = << >>
    /\ selPkg = "none"
    /\ selBin = "none"
    /\ binPath = << >>

NoResult == [ err |-> "unset" ]

Init ==
    /\ RunInit
    /\ cfg = NoCfg
    /\ bpc = "none"
    /\ metadata = << >>
    /\ foundPkg = NoResult
    /\ foundBin = NoResult

Configs == CustomConfigs \cup RustConfigs

\* ------------------------------------------------------------------- run
\* bail!/? before the temporary directory exists: invalid path, missing,
\* unreadable or malformed Nocti.toml, tempdir() failure.
RejectKinds == {"InvalidPath", "ConfigMissing", "ConfigUnreadable",
                "ConfigParse", "TempDirFailed"}

RunReject ==
    /\ pc = "start"
    /\ \E k \in RejectKinds : result' = k
    /\ pc' = "returned"
    /\ stagingAtReturn' = stagingExists
    /\ tarAtReturn' = tar
    /\ UNCHANGED << key, buildVars, nfiles, stagingCreated, stagingExists, tarVars,
                    pipeVars, streamVars, bindVars, firstFail >>

\* Config parsed, build service chosen, temporary directory created.
RunStage ==
    /\ pc = "start"
    /\ \E nm \in Names : key' = nm
    /\ \E c \in Configs : cfg' = c
    /\ bpc' = "begin"
    /\ stagingCreated' = TRUE
    /\ stagingExists' = TRUE
    /\ pc' = "build"
    /\ UNCHANGED << result, nfiles, tarVars, pipeVars, streamVars, bindVars,
                    stagingAtReturn, tarAtReturn, firstFail, buildErr,
                    errInfo, proc, spawned, selPkg, selBin, binPath, fnVars >>

\* What no step of build() touches.
stageVars == << runVars, key, stagingCreated, stagingExists, tarVars,
               pipeVars, streamVars, bindVars, firstFail >>
outerVars == << stageVars, fnVars >>

\* build() returns Err.
BuildFails(kind, info) ==
    /\ bpc' = "failed"
    /\ buildErr' = kind
    /\ errInfo' = info

\* ----------------------------------------------------- CustomBuild::build
\* validate(), the path checks and the choice of the working directory, up
\* to cmd.spawn().
CustomStart ==
    /\ pc = "build"
    /\ bpc = "begin"
    /\ cfg.type = "custom"
    /\ LET v == Validate(cfg)
           wd == WorkingDir(cfg, ProjectPath)
       IN IF v # "ok"
          THEN /\ BuildFails(v, << >>)
               /\ UNCHANGED << proc, spawned >>
          ELSE IF wd.err # "none"
          THEN /\ BuildFails(wd.err, << >>)
               /\ UNCHANGED << proc, spawned >>
          ELSE /\ proc' = ScriptCommand(cfg, wd.dir, TempPath)
               /\ spawned' = Append(spawned, "script")
               /\ bpc' = "c_wait"
               /\ UNCHANGED << buildErr, errInfo >>
    /\ UNCHANGED << outerVars, nfiles, cfg, selPkg, selBin, binPath >>

\* The environment fails a step of a valid configuration before the child
\* exists: project_path is gone, create_dir_all fails, spawn fails.
CustomEnvKinds == {"ProjectPathMissing", "TempDirCreate", "SpawnFailure"}

CustomEnvFail ==
    /\ pc = "build"
    /\ bpc = "begin"
    /\ cfg.type = "custom"
    /\ Validate(cfg) = "ok"
    /\ \E k \in CustomEnvKinds :
          /\ k = "SpawnFailure" => WorkingDir(cfg, ProjectPath).err = "none"
          /\ BuildFails(k, << >>)
    /\ UNCHANGED << outerVars, nfiles, cfg, proc, spawned, selPkg, selBin,
                    binPath >>

\* What build logs after status zero: a warning for an empty output
\* directory.
OutputWarnings(n) == IF n = 0 THEN {"EmptyOutput"} ELSE { }

\* ScriptExit with an empty output directory made an error.
ScriptExitEmptyFails ==
    /\ pc = "build"
    /\ bpc = "c_wait"
    /\ proc.state = "running"
    /\ \E code \in ExitCodes :
          /\ proc' = Exited(proc, code)
          /\ IF code # 0
             THEN /\ BuildFails("NonZeroExit", CodeText(code))
                  /\ UNCHANGED nfiles
             ELSE \E n \in FileCounts :
                     /\ nfiles' = n
                     /\ IF OutputWarnings(n) # { }
                        THEN BuildFails("EmptyOutput", << >>)
                        ELSE bpc' = "ok" /\ UNCHANGED << buildErr, errInfo >>
    /\ UNCHANGED << outerVars, cfg, spawned, selPkg, selBin, binPath >>

\* The script ends before the deadline: a status other than zero is an
\* error embedding the code; after status zero the output directory is read
\* (empty: a warning) and build returns Ok.
ScriptExit ==
    /\ pc = "build"
    /\ bpc = "c_wait"
    /\ proc.state = "running"
    /\ \E code \in ExitCodes :
          /\ proc' = Exited(proc, code)
          /\ IF code # 0
             THEN /\ BuildFails("NonZeroExit", CodeText(code))
                  /\ UNCHANGED nfiles
             ELSE /\ \E n \in FileCounts : nfiles' = n
                  /\ bpc' = "ok"
                  /\ UNCHANGED << buildErr, errInfo >>
    /\ UNCHANGED << outerVars, cfg, spawned, selPkg, selBin, binPath >>

\* wait_with_output or the read of the output directory fails.
ScriptIoKinds == {"WaitFailed", "ReadOutputDir"}

ScriptIoFail ==
    /\ pc = "build"
    /\ bpc = "c_wait"
    /\ proc.state = "running"
    /\ \E k \in ScriptIoKinds :
          /\ BuildFails(k, << >>)
          /\ proc' = IF k = "WaitFailed" THEN DropChild(proc)
                     ELSE Exited(proc, 0)
    /\ UNCHANGED << outerVars, nfiles, cfg, spawned, selPkg, selBin,
                    binPath >>

\* The deadline passes first: timeout() drops the wait, and with it the
\* child, and build returns the error with the configured seconds.
ScriptTimeout ==
    /\ pc = "build"
    /\ bpc = "c_wait"
    /\ proc.state = "running"
    /\ proc.deadline > 0
    /\ proc' = DropChild(proc)
    /\ BuildFails("Timeout", << "seconds", cfg.timeout_seconds >>)
    /\ UNCHANGED << outerVars, nfiles, cfg, spawned, selPkg, selBin,
                    binPath >>

\* ------------------------------------------------------- RustBuild::build
\* validate_project: Cargo.toml is looked for, then `cargo --version` is
\* run; a failure to run it is the only error of the probe.
RustStart ==
    /\ pc = "build"
    /\ bpc = "begin"
    /\ cfg.type = "rust"
    /\ \E manifest \in BOOLEAN, spawns \in BOOLEAN :
          IF ~manifest
          THEN /\ BuildFails("MissingManifest", << >>)
               /\ UNCHANGED << proc, spawned >>
          ELSE IF ~spawns
          THEN /\ BuildFails("ToolchainUnavailable", << >>)
               /\ UNCHANGED << proc, spawned >>
          ELSE /\ proc' = CargoVersionCommand
               /\ spawned' = Append(spawned, "cargo --version")
               /\ bpc' = "r_version"
               /\ UNCHANGED << buildErr, errInfo >>
    /\ UNCHANGED << outerVars, nfiles, cfg, selPkg, selBin, binPath >>

\* The probe ends (its status is not looked at) and get_metadata runs
\* `cargo metadata`.
RustVersionDone ==
    /\ pc = "build"
    /\ bpc = "r_version"
    /\ proc.state = "running"
    /\ \E waits \in BOOLEAN, spawns \in BOOLEAN :
          IF ~waits
          THEN /\ BuildFails("ToolchainUnavailable", << >>)
               /\ proc' = DropChild(proc)
               /\ UNCHANGED spawned
          ELSE IF ~spawns
          THEN /\ BuildFails("MetadataSpawn", << >>)
               /\ \E code \in ExitCodes : proc' = Exited(proc, code)
               /\ UNCHANGED spawned
          ELSE /\ proc' = CargoMetadataCommand(ProjectPath)
               /\ spawned' = Append(spawned, "cargo metadata")
               /\ bpc' = "r_metadata"
               /\ UNCHANGED << buildErr, errInfo >>
    /\ UNCHANGED << outerVars, nfiles, cfg, selPkg, selBin, binPath >>

\* `cargo metadata` cannot be waited for, ends with a failure status or
\* prints what does not parse.
MetadataFailKinds == {"MetadataSpawn", "MetadataFailed", "MetadataParse"}

RustMetadataFail ==
    /\ pc = "build"
    /\ bpc = "r_metadata"
    /\ proc.state = "running"
    /\ \E k \in MetadataFailKinds :
          /\ BuildFails(k, << >>)
          /\ \E code \in ExitCodes :
                /\ k = "MetadataFailed" <=> code # 0
                /\ proc' = IF k = "MetadataSpawn" THEN DropChild(proc)
                           ELSE Exited(proc, code)
    /\ UNCHANGED << outerVars, nfiles, cfg, spawned, selPkg, selBin,
                    binPath >>

\* `cargo metadata` answers md: find_package, find_binary_target, then
\* run_cargo_build spawns `cargo build`.
RustResolve ==
    /\ pc = "build"
    /\ bpc = "r_metadata"
    /\ proc.state = "running"
    /\ \E md \in Metadatas, spawns \in BOOLEAN :
          LET rb == FromConfig(cfg)
              p == FindPackage(rb, md, ProjectPath)
              t == FindBinaryTarget(rb, p.pkg)
          IN IF p.err # "none"
             THEN /\ BuildFails(p.err, << >>)
                  /\ proc' = Exited(proc, 0)
                  /\ UNCHANGED << spawned, selPkg, selBin >>
             ELSE IF t.err # "none"
             THEN /\ BuildFails(t.err, << >>)
                  /\ proc' = Exited(proc, 0)
                  /\ selPkg' = p.pkg.name
                  /\ UNCHANGED << spawned, selBin >>
             ELSE IF ~spawns
             THEN /\ BuildFails("CargoSpawn", << >>)
                  /\ proc' = Exited(proc, 0)
                  /\ selPkg' = p.pkg.name
                  /\ selBin' = t.target.name
                  /\ UNCHANGED spawned
             ELSE /\ proc' = CargoBuildCommand(rb, ProjectPath)
                  /\ spawned' = Append(spawned, "cargo build")
                  /\ selPkg' = p.pkg.name
                  /\ selBin' = t.target.name
                  /\ bpc' = "r_build"
                  /\ UNCHANGED << buildErr, errInfo >>
    /\ UNCHANGED << outerVars, nfiles, cfg, binPath >>

\* `cargo build` ends: a status other than zero is an error embedding the
\* code; after status zero the binary is looked for at get_binary_path and
\* copied to temp_path/bootstrap.
RustCargoDone ==
    /\ pc = "build"
    /\ bpc = "r_build"
    /\ proc.state = "running"
    /\ \E code \in ExitCodes, produced \in BOOLEAN, copies \in BOOLEAN :
          IF code # 0
          THEN /\ BuildFails("BuildToolFailed", CodeText(code))
               /\ proc' = Exited(proc, code)
               /\ UNCHANGED << nfiles, binPath >>
          ELSE /\ proc' = Exited(proc, code)
               /\ binPath' = GetBinaryPath(FromConfig(cfg), ProjectPath, selBin)
               /\ IF ~produced
                  THEN BuildFails("BinaryNotProduced", << >>) /\ UNCHANGED nfiles
                  ELSE IF ~copies
                  THEN BuildFails("CopyFailed", << >>) /\ UNCHANGED nfiles
                  ELSE /\ nfiles' = 1
                       /\ bpc' = "ok"
                       /\ UNCHANGED << buildErr, errInfo >>
    /\ UNCHANGED << outerVars, cfg, spawned, selPkg, selBin >>

\* cmd.status() fails while `cargo build` runs.
RustCargoWaitFail ==
    /\ pc = "build"
    /\ bpc = "r_build"
    /\ proc.state = "running"
    /\ BuildFails("CargoSpawn", << >>)
    /\ proc' = DropChild(proc)
    /\ UNCHANGED << outerVars, nfiles, cfg, spawned, selPkg, selBin,
                    binPath >>

\* The future of `run`, and with it the future of build(), is dropped while
\* a child runs: the handle of the child and temp_dir are dropped.
BuildCancelled ==
    /\ pc = "build"
    /\ proc.state = "running"
    /\ pc' = "cancelled"
    /\ bpc' = "dropped"
    /\ proc' = DropChild(proc)
    /\ stagingExists' = FALSE
    /\ UNCHANGED << result, stagingAtReturn, tarAtReturn, key, nfiles,
                    stagingCreated, tarVars, pipeVars, streamVars, bindVars,
                    firstFail, cfg, buildErr, errInfo, spawned, selPkg,
                    selBin, binPath, fnVars >>

\* buildservice.build(..).await fails: `?` returns, temp_dir is still owned
\* by `run` and is dropped (directory removed) on the way out.
BuildFail ==
    /\ pc = "build"
    /\ bpc = "failed"
    /\ pc' = "returned"
    /\ result' = "BuildFailed"
    /\ stagingExists' = FALSE
    /\ stagingAtReturn' = FALSE
    /\ tarAtReturn' = tar
    /\ UNCHANGED << key, buildVars, nfiles, stagingCreated, tarVars, pipeVars,
                    streamVars, bindVars, firstFail >>

\* The build succeeded and left nfiles files; duplex(8 * 1024) is created,
\* the tar task is spawned (temp_dir and writer move into it), the outbound
\* stream is built around reader (lazily: nothing is read yet) and `run`
\* starts connecting to the registry.  buildservice and what build() held
\* are not used again: of them the state keeps the type of the backend and
\* the commands that were spawned.
BuildOk ==
    /\ pc = "build"
    /\ bpc = "ok"
    /\ cfg' = [ type |-> cfg.type ]
    /\ proc' = NoProc
    /\ selPkg' = "none"
    /\ selBin' = "none"
    /\ binPath' = << >>
    /\ tar' = "running"
    /\ writerOpen' = TRUE
    /\ readerOpen' = TRUE
    /\ stream' = "idle"
    /\ pc' = "connect"
    /\ UNCHANGED << result, key, nfiles, bpc, buildErr, errInfo, spawned, fnVars,
                    stagingCreated, stagingExists, tarErr,
                    written, pipe, sent, lastChunk, bindVars,
                    stagingAtReturn, tarAtReturn, firstFail >>

\* ConnectFail with the read half kept alive past the return.
ConnectFailReaderKept ==
    /\ pc = "connect"
    /\ pc' = "returned"
    /\ result' = "RegistryUnreachable"
    /\ stream' = "dropped"
    /\ stagingAtReturn' = stagingExists
    /\ tarAtReturn' = tar
    /\ firstFail' = IF firstFail = "none" THEN "publish" ELSE firstFail
    /\ UNCHANGED << key, buildVars, nfiles, stagingCreated, stagingExists, tarVars,
                    pipeVars, sent, lastChunk, bindVars >>

\* RegistryServiceClient::connect fails: `?` returns; `outbound` (owning
\* reader) is dropped, the JoinHandle is dropped (the task is detached).
ConnectFail ==
    /\ pc = "connect"
    /\ pc' = "returned"
    /\ result' = "RegistryUnreachable"
    /\ readerOpen' = FALSE
    /\ stream' = "dropped"
    /\ stagingAtReturn' = stagingExists
    /\ tarAtReturn' = tar
    /\ firstFail' = IF firstFail = "none" THEN "publish" ELSE firstFail
    /\ UNCHANGED << key, buildVars, nfiles, stagingCreated, stagingExists, tarVars,
                    written, pipe, writerOpen, sent, lastChunk, bindVars >>

ConnectOk ==
    /\ pc = "connect"
    /\ pc' = "push"
    /\ stream' = "active"
    /\ UNCHANGED << result, key, buildVars, nfiles, stagingCreated, stagingExists,
                    tarVars, pipeVars, sent, lastChunk, bindVars,
                    stagingAtReturn, tarAtReturn, firstFail >>

\* ------------------------------------------------------ outbound stream
\* reader.read(&mut buf) with data buffered: as many bytes as are there,
\* at most the length of buf.
ReadLen(p) == Min(Len(p), BufLen)

\* StreamRead yielding the whole of buf (data: buf.to_vec()): what the read
\* did not overwrite is still the previous chunk.
StreamReadWholeBuf ==
    /\ pc = "push"
    /\ stream = "active"
    /\ Len(pipe) > 0
    /\ LET n == ReadLen(pipe)
           chunk == SubSeq(pipe, 1, n) \o SubSeq(lastChunk, n + 1, Len(lastChunk))
       IN /\ lastChunk' = chunk
          /\ sent' = sent \o chunk
          /\ pipe' = SubSeq(pipe, n + 1, Len(pipe))
    /\ UNCHANGED << runVars, key, buildVars, nfiles, stagingCreated, stagingExists,
                    tarVars, written, writerOpen, readerOpen, stream,
                    bindVars, firstFail >>

\* Ok(n) => yield RegistryPushRequest { data: buf[..n].to_vec() }
StreamRead ==
    /\ pc = "push"
    /\ stream = "active"
    /\ Len(pipe) > 0
    /\ LET n == ReadLen(pipe)
       IN /\ lastChunk' = SubSeq(pipe, 1, n)
          /\ sent' = sent \o SubSeq(pipe, 1, n)
          /\ pipe' = SubSeq(pipe, n + 1, Len(pipe))
    /\ UNCHANGED << runVars, key, buildVars, nfiles, stagingCreated, stagingExists,
                    tarVars, written, writerOpen, readerOpen, stream,
                    bindVars, firstFail >>

\* ReadsZero with an empty pipe taken for the end of the stream.
ReadsZeroWhenEmpty == Len(pipe) = 0

\* A read of an empty pipe is pending while the write half lives and returns
\* Ok(0) once it was dropped.
ReadsZero == Len(pipe) = 0 /\ ~writerOpen

\* Ok(0) => break.  (The Err(e) arm has no step: a read of the in-memory
\* pipe yields data, zero or pending.)
StreamEof ==
    /\ pc = "push"
    /\ stream = "active"
    /\ ReadsZero
    /\ stream' = "done"
    /\ UNCHANGED << runVars, key, buildVars, nfiles, stagingCreated, stagingExists,
                    tarVars, pipeVars, sent, lastChunk, bindVars, firstFail >>

\* ------------------------------------------------------------- push call
\* The registry may answer at any point of the request stream.  When the
\* call completes the request, and with it the stream and reader, is gone.
PushOk ==
    /\ pc = "push"
    /\ \E d \in Digests : digest' = d
    /\ pc' = "join"
    /\ readerOpen' = FALSE
    /\ stream' = IF stream = "done" THEN "done" ELSE "dropped"
    /\ UNCHANGED << result, key, buildVars, nfiles, stagingCreated, stagingExists,
                    tarVars, written, pipe, writerOpen, sent, lastChunk,
                    bindReq, bindResp, stagingAtReturn, tarAtReturn,
                    firstFail >>

\* PushFail with temp_dir owned by `run`: the `?` drops it.
PushFailDroppingTempDir ==
    /\ pc = "push"
    /\ pc' = "returned"
    /\ result' = "PushFailed"
    /\ readerOpen' = FALSE
    /\ stream' = IF stream = "done" THEN "done" ELSE "dropped"
    /\ stagingExists' = FALSE
    /\ stagingAtReturn' = FALSE
    /\ tarAtReturn' = tar
    /\ firstFail' = IF firstFail = "none" THEN "publish" ELSE firstFail
    /\ UNCHANGED << key, buildVars, nfiles, stagingCreated, tarVars,
                    written, pipe, writerOpen, sent, lastChunk, bindVars >>

\* The push call fails: `?` returns; the request stream and reader are gone,
\* the JoinHandle is dropped (the task is detached and keeps temp_dir).
PushFail ==
    /\ pc = "push"
    /\ pc' = "returned"
    /\ result' = "PushFailed"
    /\ readerOpen' = FALSE
    /\ stream' = IF stream = "done" THEN "done" ELSE "dropped"
    /\ stagingAtReturn' = stagingExists
    /\ tarAtReturn' = tar
    /\ firstFail' = IF firstFail = "none" THEN "publish" ELSE firstFail
    /\ UNCHANGED << key, buildVars, nfiles, stagingCreated, stagingExists, tarVars,
                    written, pipe, writerOpen, sent, lastChunk, bindVars >>

\* ---------------------------------------------------------------- tar task
\* Avail of a pipe that takes a full buffer whatever it holds.
AvailIgnoringBuffered == PipeCap

\* Room left in the pipe.
Avail == PipeCap - Len(pipe)

\* A write into the pipe: as much as fits, pending when nothing does.
TarWrite ==
    /\ tar = "running"
    /\ readerOpen
    /\ written < Len(Archive)
    /\ Avail > 0
    /\ \E n \in 1..Min(Avail, Len(Archive) - written) :
          /\ pipe' = pipe \o SubSeq(Archive, written + 1, written + n)
          /\ written' = written + n
    /\ UNCHANGED << runVars, key, buildVars, nfiles, stagingCreated, stagingExists,
                    tarVars, writerOpen, readerOpen, streamVars, bindVars,
                    firstFail >>

\* TaskEnds with the write half outliving the task.
TaskEndsWriterLeaked(outcome, err) ==
    /\ tar' = outcome
    /\ tarErr' = err
    /\ writerOpen' = writerOpen
    /\ stagingExists' = FALSE

\* The task ends: builder (owning writer) and temp_dir are dropped.
TaskEnds(outcome, err) ==
    /\ tar' = outcome
    /\ tarErr' = err
    /\ writerOpen' = FALSE
    /\ stagingExists' = FALSE

\* Which of the two calls is writing block number `w + 1`.
Phase(w) == IF w < Len(AppendPart(nfiles)) THEN "append_dir_all" ELSE "finish"

\* append_dir_all fails reading the staging directory.
TarIoFail ==
    /\ tar = "running"
    /\ written < Len(AppendPart(nfiles))
    /\ TaskEnds("err", "append_dir_all")
    /\ firstFail' = IF firstFail = "none" THEN "producer" ELSE firstFail
    /\ UNCHANGED << runVars, key, buildVars, nfiles, stagingCreated, written, pipe,
                    readerOpen, streamVars, bindVars >>

\* A write finds the read half dropped: BrokenPipe, surfaced by the call
\* that was writing.
TarWriteError ==
    /\ tar = "running"
    /\ ~readerOpen
    /\ written < Len(Archive)
    /\ TaskEnds("err", Phase(written))
    /\ firstFail' = IF firstFail = "none" THEN "producer" ELSE firstFail
    /\ UNCHANGED << runVars, key, buildVars, nfiles, stagingCreated, written, pipe,
                    readerOpen, streamVars, bindVars >>

\* TarComplete without builder.finish(): Ok(()) once the entries are out.
TarCompleteNoFinish ==
    /\ tar = "running"
    /\ written >= Len(AppendPart(nfiles))
    /\ tar' = "ok"
    /\ tarErr' = "none"
    /\ writerOpen' = FALSE
    /\ stagingExists' = FALSE
    /\ UNCHANGED << runVars, key, buildVars, nfiles, stagingCreated, written, pipe,
                    readerOpen, streamVars, bindVars, firstFail >>

\* Everything was written: Ok(()).
TarComplete ==
    /\ tar = "running"
    /\ written = Len(Archive)
    /\ TaskEnds("ok", "none")
    /\ UNCHANGED << runVars, key, buildVars, nfiles, stagingCreated, written, pipe,
                    readerOpen, streamVars, bindVars, firstFail >>

\* `run` has returned to main, main returns and the runtime shuts down: a
\* task that is still running is dropped.
RuntimeShutdown ==
    /\ pc = "returned"
    /\ tar = "running"
    /\ TaskEnds("dropped", "none")
    /\ UNCHANGED << runVars, key, buildVars, nfiles, stagingCreated, written, pipe,
                    readerOpen, streamVars, bindVars, firstFail >>

\* ------------------------------------------------------- join and binding
\* tar_task.await ... ?? with the task's result Err
JoinErr ==
    /\ pc = "join"
    /\ tar = "err"
    /\ pc' = "returned"
    /\ result' = "TarError"
    /\ stagingAtReturn' = stagingExists
    /\ tarAtReturn' = tar
    /\ UNCHANGED << key, buildVars, nfiles, stagingCreated, stagingExists, tarVars,
                    pipeVars, streamVars, bindVars, firstFail >>

\* JoinOk with only the outer `?`: the task's own result is not looked at.
JoinOkIgnoringResult ==
    /\ pc = "join"
    /\ tar \in {"ok", "err"}
    /\ pc' = "cp_connect"
    /\ UNCHANGED << result, key, buildVars, nfiles, stagingCreated, stagingExists,
                    tarVars, pipeVars, streamVars, bindVars,
                    stagingAtReturn, tarAtReturn, firstFail >>

JoinOk ==
    /\ pc = "join"
    /\ tar = "ok"
    /\ pc' = "cp_connect"
    /\ UNCHANGED << result, key, buildVars, nfiles, stagingCreated, stagingExists,
                    tarVars, pipeVars, streamVars, bindVars,
                    stagingAtReturn, tarAtReturn, firstFail >>

CpConnectFail ==
    /\ pc = "cp_connect"
    /\ pc' = "returned"
    /\ result' = "ControlPlaneUnreachable"
    /\ stagingAtReturn' = stagingExists
    /\ tarAtReturn' = tar
    /\ UNCHANGED << key, buildVars, nfiles, stagingCreated, stagingExists, tarVars,
                    pipeVars, streamVars, bindVars, firstFail >>

\* BindRequest with a digest that is not the response's.
BindRequestDefaultDigest(k, d) == << k, 1 >>

\* SetDigestToNameRequest { key, digest: response.digest }
BindRequest(k, d) == << k, d >>

CpConnectOk ==
    /\ pc = "cp_connect"
    /\ bindReq' = BindRequest(key, digest)
    /\ pc' = "bind"
    /\ UNCHANGED << result, key, buildVars, nfiles, stagingCreated, stagingExists,
                    tarVars, pipeVars, streamVars, digest, bindResp,
                    stagingAtReturn, tarAtReturn, firstFail >>

\* BindOutcome without the else branch: a refusal is not told apart.
BindOutcomeRefusalAsTransport(resp) ==
    CASE resp = "transport" -> "BindFailed"
      [] resp = "true" -> "Ok"
      [] resp = "false" -> "BindFailed"

\* What `run` returns for an answer of set_digest_to_name: `?` on a transport
\* error, Ok(()) if response.success, bail! otherwise.
BindOutcome(resp) ==
    CASE resp = "transport" -> "BindFailed"
      [] resp = "true" -> "Ok"
      [] resp = "false" -> "BindRejected"

BindRespond(resp) ==
    /\ pc = "bind"
    /\ bindResp' = resp
    /\ pc' = "returned"
    /\ result' = BindOutcome(resp)
    /\ stagingAtReturn' = stagingExists
    /\ tarAtReturn' = tar
    /\ UNCHANGED << key, buildVars, nfiles, stagingCreated, stagingExists, tarVars,
                    pipeVars, streamVars, digest, bindReq, firstFail >>

\* set_digest_to_name fails in transport
BindTransportFail == BindRespond("transport")

\* response.success = false
BindRejected == BindRespond("false")

\* response.success = true
BindOk == BindRespond("true")

Next ==
    \/ RunReject
    \/ RunStage
    \/ CustomStart
    \/ CustomEnvFail
    \/ ScriptExit
    \/ ScriptIoFail
    \/ ScriptTimeout
    \/ RustStart
    \/ RustVersionDone
    \/ RustMetadataFail
    \/ RustResolve
    \/ RustCargoDone
    \/ RustCargoWaitFail
    \/ BuildCancelled
    \/ BuildFail
    \/ BuildOk
    \/ ConnectFail
    \/ ConnectOk
    \/ StreamRead
    \/ StreamEof
    \/ PushOk
    \/ PushFail
    \/ TarWrite
    \/ TarIoFail
    \/ TarWriteError
    \/ TarComplete
    \/ RuntimeShutdown
    \/ JoinErr
    \/ JoinOk
    \/ CpConnectFail
    \/ CpConnectOk
    \/ BindTransportFail
    \/ BindRejected
    \/ BindOk

Spec == Init /\ [][Next]_vars

TypeOK ==
    /\ pc \in {"start", "build", "connect", "push", "join", "cp_connect",
               "bind", "returned", "cancelled"}
    /\ tar \in {"unspawned", "running", "ok", "err", "dropped"}
    /\ stream \in {"none", "idle", "active", "done", "dropped"}
    /\ written \in 0..Len(Archive)
    /\ Len(pipe) <= PipeCap

\* ------------------------------------- the resolution functions on their own
\* A RustBuild of any configured names and any metadata document: the two
\* resolution steps of RustBuild::build are applied to them in turn.
ResolveConfigs ==
    { c \in RustConfigs : c.target = None /\ c.profile = "release" }

ResolveInit ==
    /\ RunInit
    /\ cfg \in ResolveConfigs
    /\ metadata \in Metadatas
    /\ bpc = "find_package"
    /\ foundPkg = NoResult
    /\ foundBin = NoResult

ApplyFindPackage ==
    /\ bpc = "find_package"
    /\ foundPkg' = FindPackage(FromConfig(cfg), metadata, ProjectPath)
    /\ bpc' = IF foundPkg'.err = "none" THEN "find_binary_target"
              ELSE "failed"
    /\ UNCHANGED << stageVars, nfiles, cfg, buildErr, errInfo, proc, spawned,
                    selPkg, selBin, binPath, metadata, foundBin >>

ApplyFindBinaryTarget ==
    /\ bpc = "find_binary_target"
    /\ foundBin' = FindBinaryTarget(FromConfig(cfg), foundPkg.pkg)
    /\ bpc' = IF foundBin'.err = "none" THEN "resolved" ELSE "failed"
    /\ UNCHANGED << stageVars, nfiles, cfg, buildErr, errInfo, proc, spawned,
                    selPkg, selBin, binPath, metadata, foundPkg >>

ResolveNext ==
    \/ ApplyFindPackage
    \/ ApplyFindBinaryTarget

ResolveSpec == ResolveInit /\ [][ResolveNext]_vars

\* ------------------------------------------------------------- fairness
\* The registry answers a request stream it has seen the end of.
PushAnswer == stream = "done" /\ (PushOk \/ PushFail)

\* Every await of `run` completes, the runtime keeps polling the stream of a
\* call in flight and the spawned task; failures of the environment and an
\* answer of the registry before the end of the stream are possible but
\* not required.
LiveSpec ==
    /\ Spec
    /\ WF_vars(RunReject \/ RunStage)
    /\ WF_vars(BuildFail \/ BuildOk)
    /\ WF_vars(ConnectFail \/ ConnectOk)
    /\ WF_vars(StreamRead)
    /\ WF_vars(StreamEof)
    /\ WF_vars(PushAnswer)
    /\ WF_vars(TarWrite)
    /\ WF_vars(TarWriteError)
    /\ WF_vars(TarComplete)
    /\ WF_vars(JoinErr \/ JoinOk)
    /\ WF_vars(CpConnectFail \/ CpConnectOk)
    /\ WF_vars(BindTransportFail \/ BindRejected \/ BindOk)

Returned == pc = "returned"
TarEnded == tar \in {"ok", "err", "dropped"}

\* ------------------------------------------------------------------ claims

\* C1: on every exit path of `run` taken after the staging directory was
\* created, the directory has been removed at the moment `run` returns.
C1_StagingRemovedAtReturn ==
    (Returned /\ stagingCreated) => ~stagingAtReturn

\* C2: when the archive task fails its write half is closed, the consumer
\* then reads zero bytes from the emptied pipe and the request stream ends;
\* the consumer is never blocked in a read forever and `run` returns.
C2_ProducerFailureEndsStream ==
    /\ [](tar = "err" => ~writerOpen)
    /\ (tar = "err" /\ stream = "active") ~> (stream # "active")
    /\ (tar = "err") ~> Returned

C2_Witness ==
    /\ tar = "err"
    /\ tarErr = "append_dir_all"
    /\ firstFail = "producer"
    /\ stream = "done"
    /\ Len(sent) > 0
    /\ Returned

\* C3: when the archive task is the first branch to fail, the error `run`
\* returns is the archive error, whatever the registry answers.
C3_ReportsProducerError ==
    (Returned /\ firstFail = "producer" /\ tarAtReturn = "err")
        => result = "TarError"

\* C4: once the archive task was started, `run` returns only after the task
\* has terminated, on failure paths as on the success path.
C4_BothBranchesAwaited ==
    (Returned /\ tarAtReturn # "unspawned") => tarAtReturn \in {"ok", "err"}

\* C5: when the consumer side fails or stops reading, the read half is
\* released and the archive task, were it blocked on a full pipe, terminates
\* (completion, write error or cancellation): it is never left suspended.
C5_ProducerUnblocked ==
    /\ []((Returned /\ result \in {"RegistryUnreachable", "PushFailed"})
            => ~readerOpen)
    /\ [](stream = "dropped" => ~readerOpen)
    /\ (stream = "dropped" /\ tar = "running") ~> TarEnded

C5_Witness ==
    /\ firstFail = "publish"
    /\ stream = "dropped"
    /\ Len(pipe) = PipeCap
    /\ tar = "err"
    /\ tarErr = "append_dir_all"

\* C6: what the consumer has yielded so far, in yield order, is a prefix of
\* what the producer has written into the pipe so far.
C6_SentIsPrefixOfWritten ==
    /\ Len(sent) <= written
    /\ sent = SubSeq(Archive, 1, Len(sent))
    /\ sent \o pipe = SubSeq(Archive, 1, written)

C6_Witness ==
    /\ Len(lastChunk) > 0
    /\ Len(sent) > Len(lastChunk)
    /\ written > Len(sent)
    /\ tar = "running"

\* C7: the consumer's read returns zero bytes exactly when the producer has
\* ended, its write half is closed and all written data was read; the
\* request stream ends only then, never while the producer is writing.
C7_ZeroReadIffWriterClosed ==
    /\ (pc = "push" /\ stream = "active")
          => (ENABLED StreamEof
                <=> (TarEnded /\ ~writerOpen /\ Len(sent) = written))
    /\ stream = "done"
          => (TarEnded /\ ~writerOpen /\ Len(sent) = written)

C7_Witness ==
    /\ stream = "done"
    /\ tar = "ok"
    /\ written = Len(Archive)
    /\ Len(sent) > Len(lastChunk)

\* C8: when the producer finished without error and the consumer reached
\* the end of the stream, the chunks sent are exactly the archive written,
\* for trees of 0, 1 and many files.
C8_RoundTrip ==
    (tar = "ok" /\ stream = "done") => sent = ArchiveOf(nfiles)

C8_Witness ==
    /\ tar = "ok"
    /\ stream = "done"
    /\ nfiles = MaxFiles
    /\ sent = ArchiveOf(MaxFiles)
    /\ Len(sent) > PipeCap

\* C9: stages run in the order Build, Archive||Publish, Bind, each entered
\* only after the previous one succeeded; after a failure no later stage
\* acts.
C9_StageOrder ==
    /\ (tar # "unspawned" \/ stream # "none")
          => (stagingCreated /\ pc \notin {"start", "build"}
              /\ result # "BuildFailed")
    /\ (pc \in {"cp_connect", "bind"} \/ bindReq # << >>)
          => (digest \in Digests /\ tar = "ok")
    /\ result \in RejectKinds \cup {"BuildFailed"}
          => (tar = "unspawned" /\ stream = "none" /\ pipe = << >>
              /\ digest = 0 /\ bindReq = << >>)
    /\ result \in {"RegistryUnreachable", "PushFailed", "TarError",
                   "ControlPlaneUnreachable"}
          => bindReq = << >>
    /\ result = "RegistryUnreachable" => (sent = << >> /\ digest = 0)

C9_Witness ==
    /\ pc = "bind"
    /\ bindReq # << >>
    /\ tar = "ok"
    /\ nfiles = 1

\* C10: `run` returns success only if the push call returned a digest and
\* the binding call for (project name, that digest) answered success; the
\* digest of the binding request is the one the push call returned.
C10_SuccessMeansBound ==
    /\ result = "Ok"
          => (digest \in Digests /\ bindReq = << key, digest >>
              /\ bindResp = "true")
    /\ bindReq # << >> => (bindReq[1] = key /\ bindReq[2] = digest)

C10_Witness ==
    /\ result = "Ok"
    /\ digest = NumDigests
    /\ key = NumNames

\* C11: in the binding stage an answer with success=false gives an error
\* that differs from the one given when the control plane cannot be
\* connected to or the call fails in transport; none of them is success.
C11_RejectionDistinct ==
    /\ (Returned /\ bindResp = "false")
          => (result = "BindRejected"
              /\ result \notin {"BindFailed", "ControlPlaneUnreachable", "Ok"})
    /\ (Returned /\ bindResp = "transport")
          => (result = "BindFailed" /\ result \notin {"BindRejected", "Ok"})
    /\ result = "ControlPlaneUnreachable" => (bindResp = "none" /\ bindReq = << >>)
    /\ result \in {"BindFailed", "BindRejected"} => bindReq = << key, digest >>

C11_Witness ==
    /\ Returned
    /\ bindResp = "false"
    /\ result = "BindRejected"

\* The fields of a script build are in the state (until build returns Ok).
FullCustom == cfg.type = "custom" /\ "script" \in DOMAIN cfg
FullRust == cfg.type = "rust" /\ "target" \in DOMAIN cfg
NoNetworkCall ==
    /\ pc \in {"start", "build", "returned", "cancelled"}
    /\ tar = "unspawned"
    /\ stream = "none"
    /\ digest = 0
    /\ bindReq = << >>

\* C12: every external command the pipeline runs is raced against a
\* deadline: no child is waited for without a timeout.
C12_EveryChildHasDeadline ==
    proc.state = "running" => proc.deadline > 0

\* C13: when the task governing a build is cancelled while a child runs, the
\* child is killed: never is the task gone and its process still running.
C13_NoOrphanOnCancel ==
    pc = "cancelled" => proc.state # "running"

\* C14: when the deadline passes before the script ends, the script is
\* killed and build returns a timeout error carrying the configured seconds;
\* the wait is over and the run does not succeed.
C14_TimeoutKillsScript ==
    buildErr = "Timeout"
        => /\ proc.state = "killed"
           /\ errInfo = << "seconds", cfg.timeout_seconds >>
           /\ cfg.timeout_seconds > 0
           /\ bpc = "failed"
           /\ result \in {"none", "BuildFailed"}
           /\ NoNetworkCall

C14_Witness ==
    /\ buildErr = "Timeout"
    /\ Returned
    /\ result = "BuildFailed"
    /\ cfg.timeout_seconds = 1
    /\ proc.state = "killed"

\* C15: validation of a script build succeeds exactly for a script that is
\* not empty after trimming with a timeout above zero; when it fails, build
\* returns the error and no process was spawned.
C15_ValidationOfScriptBuild ==
    (FullCustom /\ bpc # "begin")
        => LET blank == \A i \in 1..Len(cfg.script) : cfg.script[i] = "ws"
               valid == ~blank /\ cfg.timeout_seconds > 0
           IN /\ valid <=> Validate(cfg) = "ok"
              /\ valid <=> buildErr \notin {"EmptyScript", "InvalidTimeout"}
              /\ ~valid => (bpc = "failed" /\ spawned = << >> /\ proc = NoProc)
              /\ blank => buildErr = "EmptyScript"

C15_Witness ==
    /\ FullCustom
    /\ cfg.script = << "ws", "ws" >>
    /\ cfg.timeout_seconds = DefaultTimeout
    /\ buildErr = "EmptyScript"
    /\ Returned

\* C16 (as claimed): every configuration or validation error aborts the run
\* before any external process was spawned and before any network call.
ConfigRejects ==
    {"InvalidPath", "ConfigMissing", "ConfigUnreadable", "ConfigParse"}
EarlyErrors ==
    {"EmptyScript", "InvalidTimeout", "MissingWorkingDirectory",
     "MissingManifest"}
ResolveErrors ==
    {"PackageNotFound", "NoPackagesFound", "BinaryTargetNotFound",
     "NoBinaryTargets"}

C16_NoProcessBeforeAnyConfigError ==
    (result \in ConfigRejects \/ buildErr \in EarlyErrors \cup ResolveErrors)
        => (spawned = << >> /\ NoNetworkCall)

\* C16 (amended): every configuration or validation error aborts the run
\* before any network call and before the script or the build tool is
\* spawned; no process at all was spawned for a bad config file, an empty
\* script, a zero timeout, a missing manifest or a missing working
\* directory, while an unresolved package or binary target is found after
\* the version probe and the metadata query have run and ended.
C16_ConfigErrorsAbortEarly ==
    /\ result \in ConfigRejects => (spawned = << >> /\ NoNetworkCall)
    /\ buildErr \in EarlyErrors
          => (spawned = << >> /\ proc = NoProc /\ NoNetworkCall)
    /\ buildErr \in ResolveErrors
          => /\ spawned = << "cargo --version", "cargo metadata" >>
             /\ proc.state = "exited"
             /\ NoNetworkCall
    /\ (FullCustom /\ bpc # "begin" /\ cfg.working_directory # NoDir
          /\ ~Exists(Join(ProjectPath, cfg.working_directory)))
          => (spawned = << >> /\ bpc = "failed")

C16_Witness ==
    /\ buildErr = "BinaryTargetNotFound"
    /\ Returned
    /\ spawned = << "cargo --version", "cargo metadata" >>

\* C17: package resolution prefers the configured name, then the package
\* whose manifest is the project root's, then the first listed package.
C17_PackageTieBreak ==
    bpc # "find_package"
        => LET name == cfg.package_name
               root == Join(ProjectPath, ManifestName)
               named == { i \in 1..Len(metadata) : metadata[i].name = name }
               atRoot == { i \in 1..Len(metadata) :
                              metadata[i].manifest_path = root }
           IN /\ (name # None /\ named # { })
                    => (foundPkg.err = "none" /\ foundPkg.pkg.name = name
                        /\ \E i \in named : metadata[i] = foundPkg.pkg)
              /\ (name # None /\ named = { })
                    => foundPkg.err = "PackageNotFound"
              /\ (name = None /\ atRoot # { })
                    => (foundPkg.err = "none"
                        /\ foundPkg.pkg.manifest_path = root)
              /\ (name = None /\ atRoot = { } /\ metadata # << >>)
                    => (foundPkg.err = "none" /\ foundPkg.pkg = metadata[1])
              /\ (name = None /\ metadata = << >>)
                    => foundPkg.err = "NoPackagesFound"

C17_Witness ==
    /\ bpc # "find_package"
    /\ cfg.package_name = "B"
    /\ Len(metadata) = 2
    /\ metadata[1].name = "A"
    /\ metadata[1].manifest_path = Join(ProjectPath, ManifestName)
    /\ foundPkg.err = "none"
    /\ foundPkg.pkg = metadata[2]

\* C18: binary resolution in the selected package: a configured name gives a
\* binary-kind target of that name or an error (never a target of another
\* kind); without a name the first binary-kind target in list order, or an
\* error when the package has none.
C18_BinaryResolution ==
    foundBin # NoResult
        => LET name == cfg.binary_name
               ts == foundPkg.pkg.targets
               Bin(t) == \E k \in 1..Len(t.kind) : t.kind[k] = "bin"
               bins == { i \in 1..Len(ts) : Bin(ts[i]) }
               namedBins == { i \in bins : ts[i].name = name }
           IN /\ (name # None /\ namedBins # { })
                    => (foundBin.err = "none" /\ Bin(foundBin.target)
                        /\ foundBin.target.name = name)
              /\ (name # None /\ namedBins = { })
                    => foundBin.err = "BinaryTargetNotFound"
              /\ (name = None /\ bins # { })
                    => (foundBin.err = "none"
                        /\ \E i \in bins :
                              /\ foundBin.target = ts[i]
                              /\ \A j \in bins : i <= j)
              /\ (name = None /\ bins = { })
                    => foundBin.err = "NoBinaryTargets"

C18_Witness ==
    /\ foundBin # NoResult
    /\ cfg.binary_name = "a"
    /\ Len(foundPkg.pkg.targets) = 2
    /\ foundPkg.pkg.targets[1] = [ name |-> "a", kind |-> << "lib" >> ]
    /\ foundBin.err = "none"
    /\ foundBin.target = [ name |-> "a", kind |-> << "bin" >> ]

\* C19: with the target triple left unset in the configuration, cargo is
\* run without a --target flag and the binary is expected at
\* project/target/<profile>/<binary>, without a triple component.
C19_NoTripleWhenUnset ==
    (FullRust /\ cfg.target = None)
        => /\ (proc.cmd = "cargo" /\ proc.args[1] = "build")
                 => \A i \in 1..Len(proc.args) : proc.args[i] # "--target"
           /\ binPath # << >>
                 => binPath \in { ProjectPath.comps
                                   \o << "target", d, selBin >> :
                                   d \in {"release", "debug"} }

\* C20: a working-directory override is rejected before the spawn or the
\* script runs in an existing directory inside the project root.
C20_ScriptRunsInsideProject ==
    (proc.cmd = "sh" /\ proc.state # "none")
        => (Exists(proc.cwd) /\ InsideProject(proc.cwd))

\* C21: the environment of the script process has OUTPUT and TEMP_PATH equal
\* to the output path and PROJECT_PATH equal to the project_path parameter
\* of build, with or without a working-directory override.
C21_EnvExposesBothParameters ==
    (proc.cmd = "sh" /\ proc.state # "none")
        => proc.env = { << "OUTPUT", TempPath >>,
                        << "PROJECT_PATH", ProjectPath >>,
                        << "TEMP_PATH", TempPath >> }

\* The same configuration without what validate warns about.
Benign(c) ==
    [ c EXCEPT
        !.script = [ i \in 1..Len(c.script) |->
                        IF c.script[i] = "sudo" THEN "cmd" ELSE c.script[i] ],
        !.timeout_seconds = IF @ > LongTimeout THEN DefaultTimeout ELSE @ ]

\* C22: warnings do not change an outcome: a script with a denylisted text
\* and a timeout above 3600 pass validation as the same configuration
\* without them does, and after exit status zero build returns Ok with an
\* empty output directory as with a filled one, and archiving starts.
C22_WarningsKeepOutcome ==
    /\ (FullCustom /\ bpc # "begin")
          => /\ Validate(cfg) = Validate(Benign(cfg))
             /\ Validate(Benign(cfg)) = "ok"
                   => buildErr \notin {"EmptyScript", "InvalidTimeout"}
             /\ (Validate(Benign(cfg)) = "ok"
                 /\ WorkingDir(cfg, ProjectPath).err = "none"
                 /\ buildErr \notin CustomEnvKinds)
                   => spawned = << "script" >>
    /\ (proc.cmd = "sh" /\ proc.state = "exited" /\ proc.code = 0
        /\ buildErr # "ReadOutputDir")
          => (bpc = "ok" /\ buildErr = "none" /\ ENABLED BuildOk)
    /\ (cfg.type = "custom" /\ bpc = "ok" /\ pc # "build")
          => tar # "unspawned"

C22_Witness ==
    /\ FullCustom
    /\ ValidateWarnings(cfg) = {"DangerousCommand", "LongTimeout"}
    /\ proc.state = "exited"
    /\ proc.code = 0
    /\ nfiles = 0
    /\ OutputWarnings(nfiles) = {"EmptyOutput"}
    /\ bpc = "ok"

\* C23: the pipe never holds more than its capacity; a write does not
\* proceed while the pipe is full, only after the consumer has taken data
\* out; data enters the pipe from the archive task alone and leaves it
\* through the outbound stream alone.
C23_BoundedSingleWriterSingleReader ==
    /\ [](Len(pipe) <= PipeCap /\ Len(pipe) * BlockBytes <= DuplexBytes)
    /\ [][ /\ written' # written
              => /\ tar = "running"
                 /\ Len(pipe) < PipeCap
                 /\ written' > written
                 /\ pipe' = pipe \o SubSeq(Archive, written + 1, written')
                 /\ UNCHANGED sent
           /\ pipe' # pipe
              => \/ written' > written
                 \/ /\ stream = "active"
                    /\ pc = "push"
                    /\ UNCHANGED written
                    /\ pipe = SubSeq(sent', Len(sent) + 1, Len(sent')) \o pipe'
           /\ sent' # sent => pipe' # pipe ]_vars

C23_Witness ==
    /\ Len(pipe) = PipeCap
    /\ tar = "running"
    /\ written < Len(Archive)
    /\ readerOpen
    /\ stream = "active"
    /\ Len(sent) > 0

\* C24: every chunk yielded to the registry is non-empty and at most 8192
\* bytes long, and every chunk but the last of the stream is exactly 8192
\* bytes long: when a further chunk is yielded, the one before it was full.
C24_ChunksFixedSize ==
    /\ [](sent # << >>
            => (Len(lastChunk) >= 1 /\ Len(lastChunk) * BlockBytes <= BufBytes))
    /\ [][ (sent' # sent /\ sent # << >>) => Len(lastChunk) = BufLen ]_vars

\* C25: a script or a `cargo build` that ends with a status other than zero
\* makes build fail with an error embedding the exit code, or the word
\* unknown when the process ended without a code; build returns Ok only
\* after the process ended with status zero.
C25_ExitStatusDecides ==
    LET script == proc.cmd = "sh"
        tool == proc.cmd = "cargo" /\ proc.args[1] = "build"
        text == IF proc.code = NoCode THEN << "unknown" >>
                ELSE << "code", proc.code >>
    IN /\ ((script \/ tool) /\ proc.state = "exited" /\ proc.code # 0)
             => /\ bpc = "failed"
                /\ buildErr = IF script THEN "NonZeroExit"
                              ELSE "BuildToolFailed"
                /\ errInfo = text
                /\ result \in {"none", "BuildFailed"}
                /\ tar = "unspawned"
       /\ buildErr \in {"NonZeroExit", "BuildToolFailed"}
             => /\ proc.state = "exited"
                /\ proc.code # 0
                /\ errInfo = text
                /\ buildErr = "NonZeroExit" <=> script
                /\ buildErr = "BuildToolFailed" <=> tool
       /\ (bpc = "ok" /\ pc = "build")
             => ((script \/ tool) /\ proc.state = "exited" /\ proc.code = 0)
       /\ tar # "unspawned" => (bpc = "ok" /\ buildErr = "none")

C25_Witness ==
    /\ buildErr = "BuildToolFailed"
    /\ proc.cmd = "cargo"
    /\ proc.code = NoCode
    /\ errInfo = << "unknown" >>
    /\ Returned
    /\ result = "BuildFailed"

\* C26: the staging directory exists as long as the archive task runs and as
\* long as the build runs; it is removed only in a step that leaves no
\* archive task running and no build in progress: the step in which the
\* task ends (completed, failed or dropped) once there is a task, the return
\* or the drop of `run` after the build otherwise; it does not come back.
C26_StagingOutlivesArchiver ==
    /\ [](tar = "running" => stagingExists)
    /\ [](pc = "build" => stagingExists)
    /\ [][ (stagingExists /\ ~stagingExists')
              => /\ tar' # "running"
                 /\ pc' # "build"
                 /\ tar # "unspawned" => (tar = "running" /\ TarEnded')
                 /\ tar = "unspawned" => bpc' \in {"failed", "dropped"} ]_vars
    /\ [][ (stagingCreated /\ ~stagingExists) => ~stagingExists' ]_vars

C26_Witness ==
    /\ Returned
    /\ result = "PushFailed"
    /\ tar = "running"
    /\ written > 0
    /\ written < Len(Archive)
    /\ stagingExists
====
